---- MODULE Spec2Model ----
(***************************************************************************)
(* Backend-process supervisor of the wqbot desktop shell                   *)
(* (packages/gui-tauri/src-tauri/src/main.rs).                             *)
(*                                                                         *)
(* State: the shared slot BackendProcess(Mutex<Option<Child>>), the mutex  *)
(* owner, the operating-system processes spawned so far, whether the port  *)
(* 127.0.0.1:3721 accepts connections, and one program counter per thread  *)
(* that can run a handler: the startup thread ("main"), the window-event   *)
(* handler ("win")                                                         *)
(* and the command callers.  The handlers are taken to run concurrently:   *)
(* the Mutex is the only serialisation the code itself provides.  Mutex    *)
(* poisoning is not modelled (no statement executed while the guard is     *)
(* held is modelled as panicking), and child.wait() returns only once the  *)
(* process has exited.                                                     *)
(***************************************************************************)
EXTENDS Integers, Sequences, FiniteSets, TLC

\* ---------------------------------------------------------------- bounds
\* Number of child processes the operating system lets the host spawn
\* before every further spawn fails.
MaxPid == 2
\* Number of commands the front-end invokes.
MaxCalls == 2

\* ------------------------------------------------------------- constants
Callers == {"r1", "r2"}
Stoppers == Callers \cup {"win"}
Starters == Callers \cup {"main"}
Threads == Callers \cup {"main", "win"}

Pids == 1..MaxPid
\* Option<Child>::None
None == 0
\* The mutex is unlocked.
Free == "free"
VARIABLES
    host,       \* "starting" | "running" | "destroyed" | "aborted"
    slot,       \* contents of BackendProcess.0: None or the pid of the Child
    lock,       \* owner of the Mutex: Free or a thread
    procs,      \* pid -> "unborn" | "running" | "terminating" (running, the
                \* termination signal delivered) | "exited" (zombie) | "reaped"
    port,       \* some process accepts connections on 127.0.0.1:3721
    pc,         \* thread -> position in its handler
    op,         \* thread -> the handler it runs or ran last
    child,      \* thread -> local `child` of stop_backend (the taken handle)
    started,    \* thread -> value returned by its start_backend call
    ret,        \* caller -> value its restart/status command returns
    info,       \* caller -> lines its get_backend_info command returns
    calls,      \* number of commands invoked so far
    trace,      \* thread -> steps taken by the handler it runs (history)
    said,       \* thread -> last line its handler printed to the console
    blocked     \* pids blocked writing to their full stdout/stderr pipe

vars == <<host, slot, lock, procs, port, pc, op, child, started, ret, info,
          calls, trace, said, blocked>>

\* ---------------------------------------------------------------- helpers
Has(t, e) == \E i \in DOMAIN trace[t] : trace[t][i] = e

Did(t, e) == [trace EXCEPT ![t] = Append(@, e)]

Say(t, line) == [said EXCEPT ![t] = line]

Spawned == {p \in Pids : procs[p] # "unborn"}

Alive(p) == procs[p] \in {"running", "terminating"}

\* The pid the operating system gives to the next child.
NextPid == Cardinality(Spawned) + 1

\* check_backend_status(), lines 201-206: the result of
\* TcpStream::connect("127.0.0.1:3721") as a boolean.
CheckBackendStatus_FromSlot == IF slot # None THEN "true" ELSE "false"

CheckBackendStatus == IF port THEN "true" ELSE "false"

\* Handles (Child values) that exist: the one in the slot, the local of a
\* stop_backend that took one, the value start_backend returned until it is
\* stored.
Owned ==
    ({slot}
       \cup {child[t] : t \in {u \in Stoppers :
                                 pc[u] \in {"stop_kill", "stop_wait"}}}
       \cup {started[t] : t \in {u \in Starters :
                                   pc[u] \in {"started", "store"}}})
    \ {None}

\* Processes whose stdout and stderr are pipes (Stdio::piped(), lines
\* 116-117 and 146-147) of which the host still holds the read ends: the
\* ends are fields of the Child and are closed when it is dropped.  No
\* statement of the program reads from them.
Piped == {p \in Owned : Alive(p)}

\* What a step of the program or the exit of a child does to the blocked
\* writers: a process that exits, or whose Child is dropped (its write then
\* fails instead of blocking), is blocked no more.  No step reads a pipe.
PipesFollow == blocked' = IF blocked = {} THEN {} ELSE blocked \cap Piped'

TypeOK ==
    /\ host \in {"starting", "running", "destroyed", "aborted"}
    /\ slot \in Pids \cup {None}
    /\ lock \in Threads \cup {Free}
    /\ procs \in [Pids -> {"unborn", "running", "terminating", "exited",
                           "reaped"}]
    /\ port \in BOOLEAN
    /\ child \in [Threads -> Pids \cup {None}]
    /\ started \in [Threads -> Pids \cup {None}]
    /\ ret \in [Callers -> {"none", "true", "false"}]
    /\ calls \in 0..MaxCalls
    /\ blocked \subseteq Pids

Init ==
    /\ host = "starting"
    /\ slot = None
    /\ lock = Free
    /\ procs = [p \in Pids |-> "unborn"]
    /\ port = FALSE
    /\ pc = [t \in Threads |-> IF t = "main" THEN "start" ELSE "idle"]
    /\ op = [t \in Threads |-> IF t = "main" THEN "startup" ELSE "none"]
    /\ child = [t \in Threads |-> None]
    /\ started = [t \in Threads |-> None]
    /\ ret = [t \in Callers |-> "none"]
    /\ info = [t \in Callers |-> <<>>]
    /\ calls = 0
    /\ trace = [t \in Threads |-> <<>>]
    /\ said = [t \in Threads |-> ""]
    /\ blocked = {}

\* ------------------------------------------------------------ environment
\* A child process exits (by itself, or because of the signal it received).
\* Its handle, wherever it is, is untouched.
ChildExit_ClearsSlot(p) ==
    /\ Alive(p)
    /\ procs' = [procs EXCEPT ![p] = "exited"]
    /\ slot' = IF slot = p THEN None ELSE slot
    /\ UNCHANGED <<host, lock, port, pc, op, child, started, ret, info,
                   calls, trace, said>>
    /\ PipesFollow

ChildExit(p) ==
    /\ Alive(p)
    /\ procs' = [procs EXCEPT ![p] = "exited"]
    /\ UNCHANGED <<host, slot, lock, port, pc, op, child, started, ret, info,
                   calls, trace, said>>
    /\ PipesFollow

\* A child writes to its stdout or stderr pipe until the pipe is full: it
\* is blocked in the write from then on.
ChildBlocks(p) ==
    /\ p \in Piped
    /\ p \notin blocked
    /\ blocked' = blocked \cup {p}
    /\ UNCHANGED <<host, slot, lock, procs, port, pc, op, child, started, ret,
                   info, calls, trace, said>>

\* The port starts or stops accepting connections: a backend has come up or
\* gone, or another program has bound or released the port.
PortChange ==
    /\ port' = ~port
    /\ UNCHANGED <<host, slot, lock, procs, pc, op, child, started, ret, info,
                   calls, trace, said>>
    /\ PipesFollow

\* ----------------------------------------------------------- start_backend
\* Entry of start_backend(), line 98.
StartBackend(t) ==
    /\ pc[t] = "start"
    /\ pc' = [pc EXCEPT ![t] = "spawn1"]
    /\ started' = [started EXCEPT ![t] = None]
    /\ said' = Say(t, "starting backend")
    /\ trace' = Did(t, "start")
    /\ UNCHANGED <<host, slot, lock, procs, port, op, child, ret, info, calls>>
    /\ PipesFollow

\* Where start_backend goes after the spawn of the candidate at `cur`:
\* `return Some(child)` on success (lines 122, 152), otherwise the next
\* iteration of the loop of line 113, then the embedded candidate (line
\* 131), then the final `None` (line 168).
AfterSpawn_KeepTrying(cur, ok) ==
    CASE cur = "spawn1" -> "spawn2"
      [] cur = "spawn2" -> "embedded"
      [] OTHER -> "started"

AfterSpawn(cur, ok) ==
    IF ok THEN "started"
    ELSE CASE cur = "spawn1" -> "spawn2"
           [] cur = "spawn2" -> "embedded"
           [] OTHER -> "started"

\* What the spawn of the candidate at `cur` adds to the history: (a) `wqbot
\* serve` and (b) `npx wqbot serve` (lines 101-111), (c) node on the embedded
\* index.js (lines 131-143).
Tried(cur, ok) ==
    CASE cur = "spawn1" -> IF ok THEN "a ok" ELSE "a failed"
      [] cur = "spawn2" -> IF ok THEN "b ok" ELSE "b failed"
      [] OTHER -> IF ok THEN "c ok" ELSE "c failed"

\* Command::spawn() of one candidate: Ok(child) with a fresh pid, or Err.
Spawn(t, ok) ==
    /\ ok => NextPid \in Pids
    /\ procs' = IF ok THEN [procs EXCEPT ![NextPid] = "running"] ELSE procs
    /\ started' = IF ok THEN [started EXCEPT ![t] = NextPid] ELSE started
    /\ pc' = [pc EXCEPT ![t] = AfterSpawn(pc[t], ok)]
    /\ trace' = Did(t, Tried(pc[t], ok))

\* One iteration of the loop over global_commands, lines 113-128.
SpawnGlobal(t) ==
    /\ pc[t] \in {"spawn1", "spawn2"}
    /\ \E ok \in BOOLEAN :
         /\ Spawn(t, ok)
         /\ said' = Say(t, IF ok THEN "started (global CLI)"
                           ELSE "global CLI failed")
    /\ UNCHANGED <<host, slot, lock, port, op, child, ret, info, calls>>
    /\ PipesFollow

\* The embedded candidate, lines 131-164, and the warning of lines 166-167
\* when it does not return a child (of the lines printed on the way, the
\* last one is kept).  `found` is how far get_resource_dir(), find_node()
\* and backend_entry.exists() get.
SpawnEmbedded(t) ==
    /\ pc[t] = "embedded"
    /\ \E found \in {"no resource dir", "no node", "no entry", "entry"},
          ok \in BOOLEAN :
         IF found = "entry"
         THEN /\ Spawn(t, ok)
              /\ said' = Say(t, IF ok THEN "started (embedded)"
                                ELSE "install the CLI or Node.js")
         ELSE /\ ~ok
              /\ pc' = [pc EXCEPT ![t] = AfterSpawn(pc[t], FALSE)]
              /\ trace' = Did(t, "c unavailable")
              /\ said' = Say(t, "install the CLI or Node.js")
              /\ UNCHANGED <<procs, started>>
    /\ UNCHANGED <<host, slot, lock, port, op, child, ret, info, calls>>
    /\ PipesFollow

\* ------------------------------------------------------------------- main
\* What becomes of the host once main() has called run(): it runs, or the
\* expect() of line 271 panics because the framework failed to initialise.
\* h is the value start_backend returned (line 253), fw whether run() got
\* the application up.
HostAfterRun_Unwrap(h, fw) ==
    IF fw /\ h # None THEN "running" ELSE "aborted"

HostAfterRun(h, fw) ==
    IF fw THEN "running" ELSE "aborted"

\* main() after start_backend returned, lines 255-271: the returned value is
\* put in the managed state and the application runs.  When run() fails the
\* managed state is dropped with the builder (the handle is dropped, the
\* process is not stopped).
MainRun ==
    /\ pc["main"] = "started"
    /\ \E fw \in BOOLEAN :
         /\ host' = HostAfterRun(started["main"], fw)
         /\ slot' = IF host' = "running" THEN started["main"] ELSE None
         /\ trace' = Did("main", IF fw THEN "run" ELSE "run failed")
    /\ pc' = [pc EXCEPT !["main"] = "done"]
    /\ UNCHANGED <<lock, procs, port, op, child, started, ret, info, calls,
                   said>>
    /\ PipesFollow

\* ----------------------------------------------------------- stop_backend
\* process.lock(), line 173: blocks until the mutex is free.
StopLock(t) ==
    /\ pc[t] = "stop_lock"
    /\ lock = Free
    /\ lock' = t
    /\ pc' = [pc EXCEPT ![t] = "stop_take"]
    /\ UNCHANGED <<host, slot, procs, port, op, child, started, ret, info,
                   calls, trace, said>>
    /\ PipesFollow

\* The owner of the mutex once the guard of line 173 held by t has gone out
\* of scope (line 196).
Unlocked_Kept(t) == t

Unlocked(t) == Free

\* What follows stop_backend in its caller: the sleep of line 214 in
\* restart_backend, the end of the handler of lines 262-269.
AfterStop_NoDelay(o) == IF o = "restart" THEN "start" ELSE "done"

AfterStop(o) == IF o = "restart" THEN "sleep" ELSE "done"

\* guard.take(), line 174: what it leaves in the slot.
SlotAfterTake_Peek(s) == s

SlotAfterTake(s) == None

\* Lines 174-175: the last line printed once take() has been evaluated; l is
\* the last line printed before.
SaidAfterTake_Always(s, l) == "stopping backend"

SaidAfterTake(s, l) == IF s # None THEN "stopping backend" ELSE l

\* `if let Some(mut child) = guard.take()`, lines 174-175.  With no child
\* the block is skipped, the guard is dropped and stop_backend returns.
StopTake(t) ==
    /\ pc[t] = "stop_take"
    /\ child' = [child EXCEPT ![t] = slot]
    /\ slot' = SlotAfterTake(slot)
    /\ said' = Say(t, SaidAfterTake(slot, said[t]))
    /\ IF slot # None
       THEN /\ pc' = [pc EXCEPT ![t] = "stop_kill"]
            /\ trace' = Did(t, "take")
            /\ UNCHANGED lock
       ELSE /\ pc' = [pc EXCEPT ![t] = AfterStop(op[t])]
            /\ trace' = Did(t, "nothing to stop")
            /\ lock' = Unlocked(t)
    /\ UNCHANGED <<host, procs, port, op, started, ret, info, calls>>
    /\ PipesFollow

\* Where stop_backend goes after the kill/taskkill command: its result is
\* discarded (`let _ =`, lines 180 and 187), the wait follows in any case.
AfterKill_Propagate(o, sent) == IF sent THEN "stop_wait" ELSE AfterStop(o)

AfterKill(o, sent) == "stop_wait"

\* Lines 178-190: `kill -TERM pid` (taskkill /PID pid /T on Windows) is run
\* and waited for.  sent: the command ran and delivered the signal to the
\* process (a zombie accepts it too).  Nothing is printed in either case.
StopKill(t) ==
    /\ pc[t] = "stop_kill"
    /\ \E sent \in BOOLEAN :
         /\ procs' = IF sent /\ procs[child[t]] = "running"
                     THEN [procs EXCEPT ![child[t]] = "terminating"]
                     ELSE procs
         /\ pc' = [pc EXCEPT ![t] = AfterKill(op[t], sent)]
         /\ trace' = Did(t, IF sent THEN "signal" ELSE "signal failed")
    /\ UNCHANGED <<host, slot, lock, port, op, child, started, ret, info,
                   calls, said>>
    /\ PipesFollow

\* The state of a process after child.wait() has returned, line 193.
AfterWait(st) == "reaped"

\* child.wait(), line 193, returns for a process in state st: only once it
\* has exited; nothing is done to make it exit after the one signal.
WaitReturns_Forced(st) == st \in {"running", "terminating", "exited"}

WaitReturns(st) == st = "exited"

\* Lines 193-196: child.wait() blocks until the process has exited and reaps
\* it; then "stopped" is printed, child and guard are dropped.
StopWait(t) ==
    /\ pc[t] = "stop_wait"
    /\ WaitReturns(procs[child[t]])
    /\ procs' = [procs EXCEPT ![child[t]] = AfterWait(@)]
    /\ said' = Say(t, "backend stopped")
    /\ lock' = Unlocked(t)
    /\ pc' = [pc EXCEPT ![t] = AfterStop(op[t])]
    /\ trace' = Did(t, "waited")
    /\ UNCHANGED <<host, slot, port, op, child, started, ret, info, calls>>
    /\ PipesFollow

\* -------------------------------------------------------------- commands
\* The front-end invokes restart_backend, line 210.
CallRestart(t) ==
    /\ host = "running"
    /\ pc[t] = "idle"
    /\ calls < MaxCalls
    /\ calls' = calls + 1
    /\ op' = [op EXCEPT ![t] = "restart"]
    /\ pc' = [pc EXCEPT ![t] = "stop_lock"]
    /\ UNCHANGED <<host, slot, lock, procs, port, child, started, ret, info,
                   trace, said>>
    /\ PipesFollow

\* std::thread::sleep(500 ms), line 214.
Sleep(t) ==
    /\ pc[t] = "sleep"
    /\ pc' = [pc EXCEPT ![t] = "start"]
    /\ trace' = Did(t, "delay")
    /\ UNCHANGED <<host, slot, lock, procs, port, op, child, started, ret,
                   info, calls, said>>
    /\ PipesFollow

\* The value restart_backend returns, lines 216-222: true when start_backend
\* gave a child and it was stored.
RestartResult_Always(h, stored) == "true"

RestartResult(h, stored) == IF h # None /\ stored THEN "true" ELSE "false"

\* Line 216 with start_backend() = None: line 222, return false.
RestartNoChild(t) ==
    /\ pc[t] = "started"
    /\ op[t] = "restart"
    /\ started[t] = None
    /\ ret' = [ret EXCEPT ![t] = RestartResult(started[t], FALSE)]
    /\ pc' = [pc EXCEPT ![t] = "return"]
    /\ UNCHANGED <<host, slot, lock, procs, port, op, child, started, info,
                   calls, trace, said>>
    /\ PipesFollow

\* Line 217 with start_backend() = Some(child): state.0.lock().
RestartLock(t) ==
    /\ pc[t] = "started"
    /\ op[t] = "restart"
    /\ started[t] # None
    /\ lock = Free
    /\ lock' = t
    /\ pc' = [pc EXCEPT ![t] = "store"]
    /\ UNCHANGED <<host, slot, procs, port, op, child, started, ret, info,
                   calls, trace, said>>
    /\ PipesFollow

\* Lines 218-219: `*guard = Some(child)` (the previous contents of the slot
\* are dropped), return true; the guard is dropped.
RestartStore(t) ==
    /\ pc[t] = "store"
    /\ slot' = started[t]
    /\ lock' = Free
    /\ ret' = [ret EXCEPT ![t] = RestartResult(started[t], TRUE)]
    /\ pc' = [pc EXCEPT ![t] = "return"]
    /\ trace' = Did(t, "store")
    /\ UNCHANGED <<host, procs, port, op, child, started, info, calls, said>>
    /\ PipesFollow

\* Whether a probe has to wait for the mutex, whose owner is l:
\* check_backend_status and get_backend_info take no State argument and
\* never lock it (lines 201 and 227).
ProbeBlocked_Locking(l) == l # Free

ProbeBlocked(l) == FALSE

\* What a probe adds to the history: whether the mutex was held meanwhile.
Probed(l) == IF l = Free THEN "probe" ELSE "probe, lock held"

\* The front-end invokes check_backend_status, lines 200-206.
CallStatus(t) ==
    /\ host = "running"
    /\ pc[t] = "idle"
    /\ ~ProbeBlocked(lock)
    /\ trace' = Did(t, Probed(lock))
    /\ calls < MaxCalls
    /\ calls' = calls + 1
    /\ op' = [op EXCEPT ![t] = "status"]
    /\ ret' = [ret EXCEPT ![t] = CheckBackendStatus]
    /\ pc' = [pc EXCEPT ![t] = "return"]
    /\ UNCHANGED <<host, slot, lock, procs, port, child, started, info, said>>
    /\ PipesFollow

\* The liveness line of get_backend_info, lines 245-246.
StatusLine_FromSlot == IF slot # None THEN "status: running"
                       ELSE "status: not running"

StatusLine == IF CheckBackendStatus = "true" THEN "status: running"
              ELSE "status: not running"

\* The front-end invokes get_backend_info, lines 226-249.
CallInfo(t) ==
    /\ host = "running"
    /\ pc[t] = "idle"
    /\ ~ProbeBlocked(lock)
    /\ trace' = Did(t, Probed(lock))
    /\ calls < MaxCalls
    /\ calls' = calls + 1
    /\ op' = [op EXCEPT ![t] = "info"]
    /\ \E resdir, node \in BOOLEAN :
         info' = [info EXCEPT ![t] =
                    << "platform", "arch",
                       IF resdir THEN "resource dir: found"
                       ELSE "resource dir: not found",
                       IF node THEN "node: found" ELSE "node: not found",
                       StatusLine >>]
    /\ pc' = [pc EXCEPT ![t] = "return"]
    /\ UNCHANGED <<host, slot, lock, procs, port, child, started, ret, said>>
    /\ PipesFollow

\* The command hands its value to the front-end; its frame is gone.
Return(t) ==
    /\ pc[t] = "return"
    /\ pc' = [pc EXCEPT ![t] = "idle"]
    /\ op' = [op EXCEPT ![t] = "none"]
    /\ child' = [child EXCEPT ![t] = None]
    /\ started' = [started EXCEPT ![t] = None]
    /\ ret' = [ret EXCEPT ![t] = "none"]
    /\ info' = [info EXCEPT ![t] = <<>>]
    /\ trace' = [trace EXCEPT ![t] = <<>>]
    /\ said' = Say(t, "")
    /\ UNCHANGED <<host, slot, lock, procs, port, calls>>
    /\ PipesFollow

\* ------------------------------------------------------------ window event
\* WindowEvent::Destroyed is delivered, lines 262-269: the managed state is
\* found and stop_backend is called on it.
WindowDestroyed ==
    /\ host = "running"
    /\ pc["win"] = "idle"
    /\ host' = "destroyed"
    /\ op' = [op EXCEPT !["win"] = "destroyed"]
    /\ pc' = [pc EXCEPT !["win"] = "stop_lock"]
    /\ UNCHANGED <<slot, lock, procs, port, child, started, ret, info, calls,
                   trace, said>>
    /\ PipesFollow

\* ------------------------------------------------------------ specification
\* The supervisor: startup, one restart_backend per caller, the
\* window-destroyed handler, and the exit of children.
Lifecycle ==
    \/ \E p \in Pids : ChildExit(p)
    \/ \E t \in Starters : StartBackend(t)
    \/ \E t \in Starters : SpawnGlobal(t)
    \/ \E t \in Starters : SpawnEmbedded(t)
    \/ MainRun
    \/ \E t \in Stoppers : StopLock(t)
    \/ \E t \in Stoppers : StopTake(t)
    \/ \E t \in Stoppers : StopKill(t)
    \/ \E t \in Stoppers : StopWait(t)
    \/ \E t \in Callers : CallRestart(t)
    \/ \E t \in Callers : Sleep(t)
    \/ \E t \in Callers : RestartNoChild(t)
    \/ \E t \in Callers : RestartLock(t)
    \/ \E t \in Callers : RestartStore(t)
    \/ WindowDestroyed

\* The probes and the port they connect to.
Probes ==
    \/ PortChange
    \/ \E t \in Callers : CallStatus(t)
    \/ \E t \in Callers : CallInfo(t)

\* The whole program: callers invoke command after command; children never
\* fill their output pipes.
Next == Lifecycle \/ Probes \/ \E t \in Callers : Return(t)

Spec == Init /\ [][Next]_vars

\* The supervisor alone: callers invoke restart_backend again and again and
\* never probe.
CoreNext == Lifecycle \/ \E t \in Callers : Return(t)

CoreSpec == Init /\ [][CoreNext]_vars

\* The supervisor with children that may fill their output pipes.
PipeNext == Lifecycle \/ \E p \in Pids : ChildBlocks(p)

PipeSpec == Init /\ [][PipeNext]_vars

\* The steps of stop_backend run by t.
StopperStep(t) == StopLock(t) \/ StopTake(t) \/ StopKill(t) \/ StopWait(t)

\* The steps of an invoked stop_backend or restart_backend run by t, from
\* the first lock() to the return.
OpStep(t) ==
    \/ StopperStep(t)
    \/ /\ t \in Callers
       /\ \/ Sleep(t) \/ StartBackend(t) \/ SpawnGlobal(t) \/ SpawnEmbedded(t)
          \/ RestartNoChild(t) \/ RestartLock(t) \/ RestartStore(t)

\* A process that has been sent the termination signal exits.
SignalledExit(p) == procs[p] = "terminating" /\ ChildExit(p)

\* The supervisor with threads that keep running while they are not blocked
\* (each handler runs on a thread of its own, scheduled by the OS) and with
\* children that exit once they have been sent the termination signal.
LiveSpec ==
    /\ Init
    /\ [][Lifecycle]_vars
    /\ \A t \in Stoppers : WF_vars(OpStep(t))
    /\ \A p \in Pids : WF_vars(SignalledExit(p))

\* ------------------------------------------------------------------ claims
\* C1: in every reachable state at most one child process that has not yet
\* exited is owned by the supervisor (slot, taken-out handles, returned and
\* not yet stored handles).
AtMostOneOwnedProcess ==
    Cardinality({p \in Owned : Alive(p)}) <= 1

\* C2: whenever restart_backend stores a new handle (it holds the lock and
\* is at the assignment of line 218) the slot is empty, so no stored handle
\* is overwritten.
StoreFindsSlotEmpty ==
    \A t \in Callers : pc[t] = "store" => slot = None

\* C3: the step with which a stop_backend that took a handle returns leaves
\* the slot empty, and the process of that handle exited and waited on.
StopReturnsClearedAndReaped ==
    [][\A t \in Stoppers :
         (pc[t] = "stop_wait" /\ pc'[t] # "stop_wait")
            => /\ child[t] # None
               /\ slot' = None
               /\ procs'[child[t]] = "reaped"]_vars

C3_Witness ==
    /\ pc["win"] = "done"
    /\ Has("win", "take")
    /\ Has("win", "waited")
    /\ procs[child["win"]] = "reaped"

\* The spawn attempts recorded in the history of t.
TryEvents == {"a ok", "a failed", "b ok", "b failed", "c ok", "c failed"}

IsTry(e) == e \in TryEvents

Tries(t) == SelectSeq(trace[t], IsTry)

\* C4: within a restart_backend call every spawn attempt comes after
\* stop_backend has returned (the process it took has been waited on, or
\* there was nothing to stop) and after the delay that follows it.
RestartStopsDelaysThenStarts ==
    \A t \in Callers :
      /\ \A i \in DOMAIN trace[t] :
           (trace[t][i] \in TryEvents \cup {"start", "c unavailable"}) =>
              \E j, k \in 1..(i - 1) :
                 /\ j < k
                 /\ trace[t][j] \in {"waited", "nothing to stop"}
                 /\ trace[t][k] = "delay"
      /\ (pc[t] \in {"start", "spawn1", "spawn2", "embedded"}) =>
           /\ Has(t, "delay")
           /\ lock # t
           /\ child[t] # None => procs[child[t]] = "reaped"

C4_Witness ==
    \E t \in Callers :
      /\ Has(t, "take")
      /\ Has(t, "waited")
      /\ Has(t, "delay")
      /\ Has(t, "b ok")

\* C5: the step with which restart_backend returns gives true exactly when
\* start_backend gave a handle and that handle is stored by the step; when
\* start_backend gave none the step gives false and stores nothing.
RestartTrueIffStored ==
    [][\A t \in Callers :
         (op[t] = "restart" /\ pc[t] # "return" /\ pc'[t] = "return")
            => /\ ret'[t] = "true" <=>
                    (started[t] # None /\ slot' = started[t] /\ pc[t] = "store")
               /\ ret'[t] \in {"true", "false"}
               /\ started[t] = None => (ret'[t] = "false" /\ slot' = slot)]_vars

C5_Witness ==
    \E t, u \in Callers :
      /\ op[t] = "restart" /\ pc[t] = "return" /\ ret[t] = "false"
      /\ op[u] = "restart" /\ pc[u] = "return" /\ ret[u] = "true"
      /\ slot = started[u]

\* C6: the lock is held only while the handle is taken out of or stored into
\* the slot; stop_backend holds it neither while the termination command
\* runs nor while it waits for the exit.
LockNotHeldAcrossWait ==
    \A t \in Stoppers : pc[t] \in {"stop_kill", "stop_wait"} => lock # t

\* C7: the steps of a stop_backend that finds the slot empty send no signal,
\* wait on no process, leave the slot empty, print nothing, change nothing
\* but the position of the caller, and return with the lock released.
StopOnEmptyIsNoOp ==
    [][\A t \in Stoppers :
         /\ (pc[t] = "stop_lock" /\ pc'[t] # pc[t]) =>
               UNCHANGED <<host, slot, procs, port, op, child, started, ret,
                           info, calls, trace, said>>
         /\ (pc[t] = "stop_take" /\ slot = None /\ pc'[t] # pc[t]) =>
               /\ UNCHANGED <<host, slot, procs, port, op, child, started,
                              ret, info, calls, said>>
               /\ pc'[t] \in {"sleep", "done"}
               /\ lock' = Free
               /\ ~Has(t, "signal") /\ ~Has(t, "signal failed")
               /\ ~Has(t, "waited")]_vars

C7_Witness ==
    \E t \in Stoppers :
      /\ Has(t, "nothing to stop")
      /\ pc[t] \in {"sleep", "done"}
      /\ said[t] = ""

\* What holds of a stop_backend whose termination command failed: the
\* handle is out of the slot, the wait follows, and the call returns only
\* with the process waited on, as soon as it has exited.
SignalFailureHandled(t) ==
    Has(t, "signal failed") =>
       /\ child[t] # None
       /\ slot # child[t]
       /\ \/ pc[t] = "stop_wait"
          \/ Has(t, "waited") /\ procs[child[t]] = "reaped"
       /\ (pc[t] = "stop_wait" /\ procs[child[t]] = "exited")
             => ENABLED StopWait(t)

\* C8 (as stated): a failure to send the termination signal is not fatal,
\* the handle is out of the slot, the wait follows, stop_backend returns
\* once the process exits, and the failure is logged.
SignalFailureLogged ==
    \A t \in Stoppers :
      /\ SignalFailureHandled(t)
      /\ (Has(t, "signal failed") /\ pc[t] = "stop_wait")
            => said[t] # "stopping backend"

\* C8 (amended): a failure to send the termination signal is not fatal, the
\* handle is out of the slot, the wait follows, stop_backend returns once
\* the process exits; the failure is discarded: no line is printed for it.
SignalFailureSwallowed ==
    \A t \in Stoppers :
      /\ SignalFailureHandled(t)
      /\ (Has(t, "signal failed") /\ pc[t] = "stop_wait")
            => said[t] = "stopping backend"

C8_Witness ==
    \E t \in Stoppers :
      /\ Has(t, "signal failed")
      /\ Has(t, "waited")
      /\ pc[t] \in {"sleep", "done"}

\* Every launch candidate of the start_backend call of t failed.
AllFailed(t) ==
    /\ Has(t, "a failed")
    /\ Has(t, "b failed")
    /\ Has(t, "c failed") \/ Has(t, "c unavailable")

\* C9: start_backend returns no handle exactly when every candidate failed,
\* and it never aborts the host: the host aborts only when the framework
\* fails to run; after a start without handle the host runs with an empty
\* slot and status, info and restart can be invoked.
StartNeverAbortsHost ==
    /\ \A t \in Starters :
         pc[t] = "started" => (started[t] = None <=> AllFailed(t))
    /\ host = "aborted" => Has("main", "run failed")
    /\ Has("main", "run") => host \in {"running", "destroyed"}
    /\ (host = "running" /\ calls = 0 /\ started["main"] = None)
          => slot = None
    /\ (host = "running" /\ calls < MaxCalls) =>
          \A c \in Callers :
             pc[c] = "idle" => /\ ENABLED CallStatus(c)
                               /\ ENABLED CallInfo(c)
                               /\ ENABLED CallRestart(c)

C9_Witness ==
    /\ host = "running"
    /\ AllFailed("main")
    /\ started["main"] = None
    /\ \E c \in Callers :
         op[c] = "restart" /\ pc[c] = "return" /\ ret[c] = "true"

\* C10: start_backend tries (a), (b), (c) in this order, stops at the first
\* candidate that spawns and returns its handle, so that a call spawns at
\* most one process; a failed candidate leads to the next one only.
CandidatesInOrderFirstWins ==
    \A t \in Starters :
      LET tr == Tries(t)
          n == Len(tr)
      IN /\ n <= 3
         /\ n >= 1 => tr[1] \in {"a ok", "a failed"}
         /\ n >= 2 => tr[2] \in {"b ok", "b failed"}
         /\ n >= 3 => tr[3] \in {"c ok", "c failed"}
         /\ \A i \in 1..(n - 1) : tr[i] \in {"a failed", "b failed"}
         /\ Has(t, "c unavailable") => (n = 2 /\ tr[2] = "b failed")
         /\ pc[t] = "spawn2" => tr = <<"a failed">>
         /\ pc[t] = "embedded" => tr = <<"a failed", "b failed">>
         /\ pc[t] = "started" =>
              /\ n >= 1
              /\ started[t] # None <=> tr[n] \in {"a ok", "b ok", "c ok"}
              /\ started[t] # None => procs[started[t]] # "unborn"

C10_Witness ==
    \E t \in Starters :
      /\ pc[t] = "started"
      /\ Tries(t) = <<"a failed", "b failed", "c ok">>
      /\ started[t] # None

\* C11: the step of check_backend_status returns true exactly when the
\* connect to 127.0.0.1:3721 succeeds at that moment, whatever the slot
\* holds; a failed connect gives false, never an error.
StatusIffConnect ==
    [][\A t \in Callers :
         (pc[t] = "idle" /\ pc'[t] = "return" /\ op'[t] = "status")
            => /\ ret'[t] \in {"true", "false"}
               /\ ret'[t] = "true" <=> port]_vars

C11_Witness ==
    \E t \in Callers :
      /\ op[t] = "status" /\ pc[t] = "return"
      /\ ret[t] = "false"
      /\ ~port
      /\ slot # None /\ Alive(slot)

\* C12: check_backend_status and get_backend_info never own the lock and
\* can be invoked and completed whoever holds it, also while a stop_backend
\* is blocked waiting for a child that has not exited.
ProbesIgnoreLock ==
    \A c \in Callers :
      /\ (pc[c] = "idle" /\ host = "running" /\ calls < MaxCalls)
            => (ENABLED CallStatus(c) /\ ENABLED CallInfo(c))
      /\ (op[c] \in {"status", "info"}) =>
            /\ lock # c
            /\ pc[c] = "return"
            /\ ENABLED Return(c)

C12_Witness ==
    \E c \in Callers, t \in Stoppers :
      /\ op[c] \in {"status", "info"}
      /\ Has(c, "probe, lock held")
      /\ pc[t] = "stop_wait" /\ lock = t /\ Alive(child[t])

\* C15: the liveness line of get_backend_info says running exactly when the
\* connect succeeds at that step; with no backend ever started and nothing
\* listening, check_backend_status gives false and the line says not
\* running.
InfoLineFollowsProbe ==
    [][\A t \in Callers :
         /\ (pc[t] = "idle" /\ pc'[t] = "return" /\ op'[t] = "info")
               => /\ Len(info'[t]) = 5
                  /\ info'[t][5] \in {"status: running", "status: not running"}
                  /\ info'[t][5] = "status: running" <=> port
                  /\ (Spawned = {} /\ ~port)
                        => info'[t][5] = "status: not running"
         /\ (pc[t] = "idle" /\ pc'[t] = "return" /\ op'[t] = "status"
               /\ Spawned = {} /\ ~port)
               => ret'[t] = "false"]_vars

C15_Witness ==
    \E t, u \in Callers :
      /\ Spawned = {} /\ ~port
      /\ op[t] = "info" /\ pc[t] = "return"
      /\ info[t][5] = "status: not running"
      /\ op[u] = "status" /\ pc[u] = "return" /\ ret[u] = "false"

\* C16: once the window-destroyed handler has returned the slot is empty
\* and no backend process is alive, also when a restart_backend was in
\* flight when the event was handled.
NoBackendAfterWindowDestroyed ==
    pc["win"] = "done" =>
       /\ slot = None
       /\ \A p \in Pids : ~Alive(p)

\* The positions of restart_backend between the return of its stop_backend
\* and its lock() for the store.
BetweenStopAndStore == {"sleep", "start", "spawn1", "spawn2", "embedded",
                        "started"}

\* C18: restart_backend does not own the lock during its delay nor during
\* start_backend: it owns it only inside stop_backend and for the store, so
\* a concurrent stop_backend can take the lock in that window.
RestartUnlockedBetweenStopAndStore ==
    \A t \in Callers :
      /\ pc[t] \in BetweenStopAndStore => lock # t
      /\ lock = t => pc[t] \in {"stop_take", "stop_kill", "stop_wait", "store"}
      /\ (pc[t] \in BetweenStopAndStore /\ lock = Free) =>
            \A u \in Stoppers : pc[u] = "stop_lock" => ENABLED StopLock(u)

C18_Witness ==
    \E t \in Callers :
      /\ pc[t] \in BetweenStopAndStore
      /\ Has(t, "nothing to stop")
      /\ lock = "win"
      /\ pc["win"] = "stop_wait"

\* C19: the slot changes only by the take of stop_backend (to empty) and by
\* the store of restart_backend (to the handle its start_backend returned),
\* after main() has put the initial value in it; probes, start_backend and
\* the exit of a child leave it as it is.
SlotChangesOnlyByTakeAndStore ==
    [][slot' # slot =>
         \/ \E t \in Stoppers :
               pc[t] = "stop_take" /\ pc'[t] # "stop_take" /\ slot' = None
         \/ \E t \in Callers :
               /\ pc[t] = "store" /\ pc'[t] = "return"
               /\ started[t] # None /\ slot' = started[t]
         \/ /\ host = "starting" /\ pc["main"] = "started"
            /\ slot' = started["main"]]_vars

C19_Witness ==
    /\ host = "running"
    /\ slot # None
    /\ procs[slot] = "exited"
    /\ \E c \in Callers : op[c] = "status" /\ pc[c] = "return"

\* C20: each handle is stopped at most once: a stop_backend that signals or
\* waits owns the lock and a handle that is out of the slot and whose
\* process has not been waited on, and no two stop_backend executions have
\* taken the same handle.
EachHandleStoppedOnce ==
    \A t \in Stoppers :
      /\ pc[t] \in {"stop_kill", "stop_wait"} =>
            /\ lock = t
            /\ child[t] # None
            /\ slot # child[t]
            /\ procs[child[t]] \in {"running", "terminating", "exited"}
      /\ \A u \in Stoppers \ {t} :
            (child[t] # None /\ child[u] # None) => child[t] # child[u]

C20_Witness ==
    \E t, u \in Stoppers :
      /\ t # u
      /\ Has(t, "waited") /\ Has(u, "signal")
      /\ pc[u] = "stop_wait"
      /\ child[t] # child[u]

\* The termination requests in the history of t.
Signals(t) ==
    {i \in DOMAIN trace[t] : trace[t][i] \in {"signal", "signal failed"}}

\* C13 (as stated): after the graceful signal, while the process has not
\* exited, stop_backend goes on to a forced termination: it has a step to
\* take.
StopEscalatesToForced ==
    \A t \in Stoppers :
      (pc[t] = "stop_wait" /\ Alive(child[t])) => ENABLED StopperStep(t)

\* C13 (amended): shutdown is graceful only: stop_backend issues one
\* termination request and then waits; while the process has not exited it
\* takes no further step, and it returns only after the exit.
StopIsGracefulOnly ==
    \A t \in Stoppers :
      /\ pc[t] = "stop_wait" =>
            /\ Cardinality(Signals(t)) = 1
            /\ Alive(child[t]) => ~ENABLED StopperStep(t)
            /\ procs[child[t]] = "exited" => ENABLED StopWait(t)
      /\ Has(t, "waited") =>
            /\ Cardinality(Signals(t)) = 1
            /\ procs[child[t]] = "reaped"

C13_Witness ==
    /\ pc["win"] = "stop_wait"
    /\ Has("win", "signal")
    /\ procs[child["win"]] = "terminating"

\* C14: every line a spawned backend writes to its piped stdout or stderr is
\* eventually consumed by a background task, so the child is never blocked
\* forever on a full pipe: whenever a child is blocked in a write to a full
\* pipe, some step of the supervisor can take output off the pipe, leaving
\* the child running, its pipe open and the write completed.
BlockedChildIsDrained ==
    \A p \in blocked :
      ENABLED (PipeNext /\ p \in Piped' /\ p \notin blocked')

\* t is inside an invoked stop_backend or restart_backend.
InOp(t) == pc[t] \notin {"idle", "return", "done"}

\* t is in child.wait() on a taken-out child that has not exited.
WaitsOnLiveChild(t) == pc[t] = "stop_wait" /\ Alive(child[t])

\* t is in child.wait() on a taken-out child that the signal did not reach.
WaitsOnUnsignalled(t) == pc[t] = "stop_wait" /\ procs[child[t]] = "running"

\* t is in lock() of stop_backend or of restart_backend.
WantsLock(t) ==
    \/ pc[t] = "stop_lock"
    \/ pc[t] = "started" /\ op[t] = "restart" /\ started[t] # None

\* C17 (as stated): if every child exits after it has been sent the
\* termination signal, every invoked stop_backend and restart_backend
\* eventually returns.
SignalledChildrenExitThenOpsReturn ==
    \A t \in Stoppers : InOp(t) ~> ~InOp(t)

\* An operation that cannot take a step is in child.wait() on a taken-out
\* child that has not exited, or in lock() while the mutex is held by a
\* thread that can take a step or is in such a child.wait(); no thread
\* asks for the mutex it holds; behind a stop_backend that waits, whoever
\* needs the mutex is blocked.
BlockedOnlyBehindLiveChild ==
    \A t \in Stoppers :
      /\ (InOp(t) /\ ~ENABLED OpStep(t)) =>
            \/ WaitsOnLiveChild(t)
            \/ /\ WantsLock(t)
               /\ lock \in Stoppers \ {t}
               /\ ENABLED OpStep(lock) \/ WaitsOnLiveChild(lock)
      /\ WantsLock(t) => lock # t
      /\ (WantsLock(t) /\ \E u \in Stoppers : lock = u /\ WaitsOnLiveChild(u))
            => ~ENABLED OpStep(t)

\* C17 (amended): every invoked stop_backend and restart_backend eventually
\* returns unless a stop_backend waits for ever on a taken-out child that
\* never exits (one that ignores the signal, or one that the signal never
\* reached because the kill command failed); that is the only way to be
\* blocked, and it blocks every later operation that needs the mutex.
OpsReturnUnlessChildNeverExits ==
    /\ []BlockedOnlyBehindLiveChild
    /\ \A t \in Stoppers :
         InOp(t) ~> (~InOp(t) \/ \E u \in Stoppers : WaitsOnUnsignalled(u))

C17_Witness ==
    /\ pc["win"] = "stop_wait"
    /\ Has("win", "signal failed")
    /\ procs[child["win"]] = "running"
    /\ \E t \in Callers : pc[t] = "stop_lock"

====
